---- MODULE Spec2Model ----
(***************************************************************************)
(* Model of src/lambda.py: the sales-data pipeline handler.                *)
(*                                                                         *)
(* A batch is a table of text cells (the bytes of the raw object); a       *)
(* DataFrame is that table plus the dtype pandas infers for each column.   *)
(* The collaborators (S3, STS, Secrets Manager, MySQL, SNS) are state the  *)
(* handler reads and writes; each call to one of them may raise.           *)
(***************************************************************************)
EXTENDS Integers, Sequences, FiniteSets, TLC

(***************************************************************************)
(* Bounds of the model.                                                    *)
(***************************************************************************)
\* Number of invocations of lambda_handler in one behaviour.
MaxInvocations == 2

\* Number of invocations in a behaviour that draws its raw file from the
\* validator's input family (ValidatorTables).
MaxValidated == 1

(***************************************************************************)
(* Columns (validate_data, lines 83-87, 96, 103).                          *)
(***************************************************************************)
required_columns ==
    << "uuid", "Country", "ItemType", "SalesChannel", "OrderPriority",
       "OrderDate", "Region", "ShipDate", "UnitsSold", "UnitPrice",
       "UnitCost", "TotalRevenue", "TotalCost", "TotalProfit" >>

numeric_cols ==
    << "UnitsSold", "UnitPrice", "UnitCost", "TotalRevenue", "TotalCost", "TotalProfit" >>

date_cols == << "OrderDate", "ShipDate" >>

Range(s) == { s[i] : i \in 1..Len(s) }

RECURSIVE SelectSeqBy(_, _)
\* [x for x in s if x in keep], order kept (a list comprehension).
SelectSeqBy(s, keep) ==
    IF s = << >> THEN << >>
    ELSE IF Head(s) \in keep THEN << Head(s) >> \o SelectSeqBy(Tail(s), keep)
         ELSE SelectSeqBy(Tail(s), keep)

(***************************************************************************)
(* Cells.  Every cell of a raw file is a text token; "" is the empty cell, *)
(* which pandas reads as NaN / NaT.                                        *)
(***************************************************************************)
NaN == ""

\* Text tokens pandas' type inference reads as numbers, with their values.
NumTokens == { "3", "5", "9" }
NumValue(tok) ==
    CASE tok = "3" -> 3
      [] tok = "5" -> 5
      [] tok = "9" -> 9

\* Text tokens that parse under '%m/%d/%Y', with the timestamp they parse to
\* (pd.to_datetime, line 107) and the text strftime('%Y-%m-%d') renders it as
\* (lines 168-169).
MdyTokens == { "01/15/2020", "02/20/2020" }
ParseMdy(tok) ==
    CASE tok = "01/15/2020" -> "2020-01-15T00:00:00"
      [] tok = "02/20/2020" -> "2020-02-20T00:00:00"
      [] tok = NaN -> NaN
Strftime(ts) ==
    CASE ts = "2020-01-15T00:00:00" -> "2020-01-15"
      [] ts = "2020-02-20T00:00:00" -> "2020-02-20"
      [] ts = NaN -> NaN

(***************************************************************************)
(* DataFrames.                                                             *)
(***************************************************************************)
Column(df, col) == [ i \in 1..Len(df.rows) |-> df.rows[i][col] ]

\* The dtype pd.read_csv gives a column of text cells: a numeric dtype when
\* there is at least one row and every cell is a number or empty, object
\* otherwise (an empty frame has object columns).
InferDtype(cells) ==
    IF Len(cells) > 0 /\ \A i \in 1..Len(cells) : cells[i] \in NumTokens \cup { NaN }
    THEN "numeric"
    ELSE "object"

\* pd.read_csv / pd.read_json on the bytes of a table (lines 64-71).
ParseTable(table) ==
    [ columns |-> table.columns,
      dtypes  |-> [ c \in table.columns |-> InferDtype(Column(table, c)) ],
      rows    |-> table.rows ]

\* pd.api.types.is_numeric_dtype(df[col]) (line 99).
is_numeric_dtype(df, col) == df.dtypes[col] = "numeric"

\* pd.to_datetime(df[col], format='%m/%d/%Y') raises unless every cell
\* parses (empty cells become NaT) (line 107).
ToDatetimeRaises(df, col) ==
    \E i \in 1..Len(df.rows) : df.rows[i][col] \notin MdyTokens \cup { NaN }

\* df[col] = pd.to_datetime(df[col], ...): the column rewritten in place.
AssignDatetime(df, col) ==
    [ df EXCEPT !.dtypes[col] = "datetime",
                !.rows = [ i \in 1..Len(df.rows) |->
                             [ df.rows[i] EXCEPT ![col] = ParseMdy(@) ] ] ]

\* Mutant of HasDuplicates: only neighbouring rows are compared.
HasDuplicates_Adjacent(cells) ==
    \E i \in 1..(Len(cells) - 1) : cells[i] = cells[i+1]

\* df['uuid'].duplicated().any() (line 113).
HasDuplicates(cells) ==
    \E i, j \in 1..Len(cells) : i < j /\ cells[i] = cells[j]

(***************************************************************************)
(* validate_data (lines 81-121).  It returns the list of defects and       *)
(* rewrites the date columns of df in place, so the model returns both.    *)
(***************************************************************************)
Defect(kind, cols) == [ kind |-> kind, cols |-> cols ]

\* Mutant of MissingColsErrors: the defect names the first missing column only.
MissingColsErrors_First(df) ==
    LET missing_cols == SelectSeqBy(required_columns, Range(required_columns) \ df.columns)
    IN  IF missing_cols # << >> THEN << Defect("Missing columns", << Head(missing_cols) >>) >> ELSE << >>

MissingColsErrors(df) ==
    LET missing_cols == SelectSeqBy(required_columns, Range(required_columns) \ df.columns)
    IN  IF missing_cols # << >> THEN << Defect("Missing columns", missing_cols) >> ELSE << >>

RECURSIVE NumericErrors(_, _)
NumericErrors(df, cols) ==
    IF cols = << >> THEN << >>
    ELSE LET col == Head(cols)
             here == IF col \in df.columns /\ ~is_numeric_dtype(df, col)
                     THEN << Defect("Non-numeric values in", << col >>) >>
                     ELSE << >>
         IN  here \o NumericErrors(df, Tail(cols))

RECURSIVE DateCheck(_, _, _)
\* The loop of lines 104-109: the frame after the loop and the defects added.
DateCheck(df, cols, errors) ==
    IF cols = << >> THEN [ df |-> df, errors |-> errors ]
    ELSE LET col == Head(cols)
         IN  IF col \notin df.columns THEN DateCheck(df, Tail(cols), errors)
             ELSE IF ToDatetimeRaises(df, col)
                  THEN DateCheck(df, Tail(cols),
                                 Append(errors, Defect("Invalid date format in", << col >>)))
                  ELSE DateCheck(AssignDatetime(df, col), Tail(cols), errors)

UuidErrors(df) ==
    IF "uuid" \in df.columns /\ HasDuplicates(Column(df, "uuid"))
    THEN << Defect("Duplicate UUIDs found", << >>) >>
    ELSE << >>

validate_data(df) ==
    LET e1    == MissingColsErrors(df) \o NumericErrors(df, numeric_cols)
        dated == DateCheck(df, date_cols, e1)
    IN  [ df |-> dated.df, errors |-> dated.errors \o UuidErrors(dated.df) ]

\* df.to_parquet(buffer, index=False) (line 145): the frame stored by column.
ToParquet(df) ==
    [ schema |-> df.dtypes,
      data   |-> [ c \in df.columns |-> Column(df, c) ] ]

(***************************************************************************)
(* Object keys.  A key is prefix/[timestamp/]base.ext; ts = 0 is a key     *)
(* with no timestamp folder (the raw objects).                             *)
(***************************************************************************)
Key(prefix, ts, base, ext) == [ prefix |-> prefix, ts |-> ts, base |-> base, ext |-> ext ]

\* f"quarantine/{timestamp}/{os.path.basename(key)}" (lines 126-128).
quarantine_key(key, timestamp) == Key("quarantine", timestamp, key.base, key.ext)

\* f"processed/{timestamp}/{splitext(basename(key))[0]}.parquet" (lines 146-148).
target_key(key, timestamp) == Key("processed", timestamp, key.base, "parquet")

(***************************************************************************)
(* The warehouse step's transforms (update_rds_tables, lines 160-194).     *)
(***************************************************************************)
\* Lines 168-169: both date columns rendered as '%Y-%m-%d' text, in place.
StrftimeDates(df) ==
    [ df EXCEPT !.dtypes["OrderDate"] = "object",
                !.dtypes["ShipDate"] = "object",
                !.rows = [ i \in 1..Len(df.rows) |->
                             [ df.rows[i] EXCEPT !["OrderDate"] = Strftime(@),
                                                 !["ShipDate"] = Strftime(@) ] ] ]

\* Mutant of DropDuplicatesKeepLast: the drop_duplicates call is left out.
DropDuplicates_Omitted(rows) == rows

\* Mutant of DropDuplicatesKeepLast: keep='first'.
DropDuplicates_KeepFirst(rows) ==
    LET keep == { i \in 1..Len(rows) :
                    \A j \in 1..(i-1) : rows[j]["uuid"] # rows[i]["uuid"] }
        F[i \in 0..Len(rows)] ==
            IF i = 0 THEN << >>
            ELSE IF i \in keep THEN Append(F[i-1], rows[i]) ELSE F[i-1]
    IN  F[Len(rows)]

\* merged_df.drop_duplicates(subset=['uuid'], keep='last') (line 180): a row
\* stays when no later row has its uuid.
DropDuplicatesKeepLast(rows) ==
    LET keep == { i \in 1..Len(rows) :
                    \A j \in (i+1)..Len(rows) : rows[j]["uuid"] # rows[i]["uuid"] }
        F[i \in 0..Len(rows)] ==
            IF i = 0 THEN << >>
            ELSE IF i \in keep THEN Append(F[i-1], rows[i]) ELSE F[i-1]
    IN  F[Len(rows)]

\* Lines 179-180: pd.concat([existing_sales_tgt, df]) then drop_duplicates.
Reconcile(existing_rows, df_rows) == DropDuplicatesKeepLast(existing_rows \o df_rows)

\* An aggregate that may be missing: << >> is NaN, << v >> is the value v.
RECURSIVE Gcd(_, _)
Gcd(a, b) == IF b = 0 THEN a ELSE Gcd(b, a % b)

\* The numbers of a column, NaN cells skipped (pandas' skipna).
Numbers(cells) ==
    LET F[i \in 0..Len(cells)] ==
            IF i = 0 THEN << >>
            ELSE IF cells[i] = NaN THEN F[i-1] ELSE Append(F[i-1], NumValue(cells[i]))
    IN  F[Len(cells)]

\* 'max' of a group's column.
AggMax(cells) ==
    LET xs == Numbers(cells)
    IN  IF xs = << >> THEN << >>
        ELSE << CHOOSE m \in Range(xs) : \A x \in Range(xs) : x <= m >>

\* 'mean' of a group's column, as the fraction sum/count in lowest terms.
AggMean(cells) ==
    LET xs == Numbers(cells)
        Sum[i \in 0..Len(xs)] == IF i = 0 THEN 0 ELSE Sum[i-1] + xs[i]
        g == Gcd(Sum[Len(xs)], Len(xs))
    IN  IF xs = << >> THEN << >>
        ELSE << [ num |-> Sum[Len(xs)] \div g, den |-> Len(xs) \div g ] >>

\* Lines 184-189: df.groupby('Country').agg(...).reset_index(): one row per
\* Country value of the frame (rows whose Country is NaN are left out).
Aggregate(df) ==
    LET keys == { df.rows[i]["Country"] : i \in 1..Len(df.rows) } \ { NaN }
        group(k) == SelectSeq(df.rows, LAMBDA r : r["Country"] = k)
        col(k, c) == [ i \in 1..Len(group(k)) |-> group(k)[i][c] ]
    IN  { [ Country               |-> k,
            max_units_sold        |-> AggMax(col(k, "UnitsSold")),
            average_total_revenue |-> AggMean(col(k, "TotalRevenue")),
            average_total_cost    |-> AggMean(col(k, "TotalCost")),
            average_total_profit  |-> AggMean(col(k, "TotalProfit")) ] : k \in keys }

(***************************************************************************)
(* The raw files the behaviours upload.                                    *)
(***************************************************************************)
MkRow(id, country, units, odate) ==
    [ c \in Range(required_columns) |->
        CASE c = "uuid"          -> id
          [] c = "Country"       -> country
          [] c = "ItemType"      -> "Fruits"
          [] c = "SalesChannel"  -> "Online"
          [] c = "OrderPriority" -> "H"
          [] c = "OrderDate"     -> odate
          [] c = "Region"        -> "Asia"
          [] c = "ShipDate"      -> "02/20/2020"
          [] c = "UnitsSold"     -> units
          [] c = "UnitPrice"     -> "3"
          [] c = "UnitCost"      -> "3"
          [] c = "TotalRevenue"  -> "9"
          [] c = "TotalCost"     -> "5"
          [] c = "TotalProfit"   -> "3" ]

\* A table with the columns `cols` of the rows `rows`.
Table(cols, rows) ==
    [ columns |-> cols,
      rows    |-> [ i \in 1..Len(rows) |-> [ c \in cols |-> rows[i][c] ] ] ]

AllColumns == Range(required_columns)

\* Two versions of the record of an identifier.
RowA(id) == MkRow(id, "US", "5", "01/15/2020")
RowB(id) == MkRow(id, "FR", "9", "02/20/2020")

GoodTables ==
    { Table(AllColumns, << RowA("u1") >>),
      Table(AllColumns, << RowB("u1") >>),
      Table(AllColumns, << RowA("u2") >>),
      Table(AllColumns, << RowB("u2"), RowA("u1") >>),
      Table(AllColumns, << RowB("u1"), MkRow("u2", "FR", "3", "01/15/2020") >>) }

BadTables ==
    { Table(AllColumns, << RowA("u1"), RowB("u1") >>),
      Table(AllColumns \ { "Country" }, << RowA("u1") >>),
      Table(AllColumns, << MkRow("u1", "US", "abc", "2020-01-15"), RowA("u2") >>),
      Table(AllColumns, << >>) }

RawTables == GoodTables \cup BadTables

CsvKey == Key("incoming", 0, "sales", "csv")
TxtKey == Key("incoming", 0, "notes", "txt")
RawKeys == { CsvKey, TxtKey }

\* The uploads: what is put under which raw key.
Uploads ==
    [ key : { CsvKey }, body : RawTables ]
      \cup [ key : { TxtKey }, body : { Table(AllColumns, << RowA("u1") >>) } ]

\* The raw files the validator is exercised on: every column set below with
\* every row sequence below, so that each defect occurs alone and together
\* with each other one.
ValidatorColumns ==
    { AllColumns,
      AllColumns \ { "Country" },
      AllColumns \ { "UnitsSold" },
      AllColumns \ { "OrderDate" },
      AllColumns \ { "uuid" },
      AllColumns \ { "UnitsSold", "ShipDate", "Region" },
      {} }

ValidatorRows ==
    { << RowA("u1") >>,
      << RowA("u1"), RowB("u2") >>,
      << >>,
      << MkRow("u1", "US", "abc", "01/15/2020"), RowA("u2") >>,
      << MkRow("u1", "US", "abc", "01/15/2020"), MkRow("u2", "FR", "xyz", "02/20/2020") >>,
      << [ RowA("u1") EXCEPT !["UnitsSold"] = "abc", !["TotalCost"] = "abc" ] >>,
      << MkRow("u1", "US", "5", "2020-01-15") >>,
      << [ MkRow("u1", "US", "5", "2020-01-15") EXCEPT !["ShipDate"] = "2020-02-20" ], RowA("u1") >>,
      << RowA("u1"), RowB("u2"), RowB("u1") >>,
      << MkRow("u1", NaN, "5", "01/15/2020") >>,
      << MkRow(NaN, "US", NaN, NaN), MkRow(NaN, "FR", "5", "02/20/2020") >>,
      << MkRow("u1", "US", NaN, "01/15/2020") >>,
      << MkRow("u1", "US", "5", NaN) >> }

ValidatorTables == { Table(cols, rows) : cols \in ValidatorColumns, rows \in ValidatorRows }

\* The execution environments a handler invocation runs in.
Envs == { "env1", "env2" }

(***************************************************************************)
(* State.                                                                  *)
(***************************************************************************)
VARIABLES
    s3,             \* the bucket: object key -> object body
    sales,          \* MySQL table sales (raw log)
    sales_tgt,      \* MySQL table sales_tgt (snapshot)
    sales_summary,  \* MySQL table sales_summary
    sns,            \* the messages published to the topic, in order
    clock,          \* time, in invocations started so far
    inv             \* per environment: the locals of its handler invocation

vars == << s3, sales, sales_tgt, sales_summary, sns, clock, inv >>

NoFrame == [ columns |-> {}, dtypes |-> << >>, rows |-> << >> ]
NoKey == Key("", 0, "", "")
NoResult == [ outcome |-> "none", keys |-> {}, status |-> "", reason |-> << >>, error |-> "" ]

\* return {"status": ..., ...} and raise ...: how an invocation ends.
Returned(status, keys, reason, error) ==
    [ outcome |-> "returned", keys |-> keys, status |-> status, reason |-> reason, error |-> error ]
Raised(error) ==
    [ outcome |-> "raised", keys |-> {}, status |-> "", reason |-> << >>, error |-> error ]

IdleLocals ==
    [ pc |-> "idle", raw_key |-> NoKey, raw_df |-> NoFrame, validation_errors |-> << >>,
      existing_sales_tgt |-> << >>, e |-> "", result |-> NoResult, calls |-> << >> ]

\* A MySQL table: absent until a to_sql creates it.
AbsentTable == [ exists |-> FALSE, rows |-> << >> ]
AbsentSummary == [ exists |-> FALSE, rows |-> {} ]

Init ==
    /\ s3 = << >>
    /\ sales = AbsentTable
    /\ sales_tgt = AbsentTable
    /\ sales_summary = AbsentSummary
    /\ sns = << >>
    /\ clock = 0
    /\ inv = [ env \in Envs |-> IdleLocals ]

(***************************************************************************)
(* Helpers of the actions.                                                 *)
(***************************************************************************)
InFlight(env) == inv[env].pc \notin { "idle", "done" }

\* One collaborator call of an invocation, and whether it returned.
Call(op, ok) == [ op |-> op, ok |-> ok ]

S3Put(store, key, body) == (key :> body) @@ store
S3Delete(store, key) == [ k \in DOMAIN store \ { key } |-> store[k] ]

\* get_timestamp_folder (lines 52-56).
get_timestamp_folder == clock

\* The `except Exception as e` of the main pipeline (line 259) is entered.
Except(env, calls, message) ==
    [ inv[env] EXCEPT !.pc = "except", !.e = message, !.calls = calls ]

\* The triggers an invocation may get: an object just uploaded to a raw key,
\* an event for a raw key delivered again, or an event of the wrong shape.
Triggers ==
    { [ kind |-> "put", key |-> u.key, body |-> u.body ] : u \in Uploads }
      \cup [ kind : { "event" }, key : RawKeys, body : { Table({}, << >>) } ]
      \cup [ kind : { "malformed" }, key : { NoKey }, body : { Table({}, << >>) } ]

(***************************************************************************)
(* lambda_handler, step by step (lines 204-266).                           *)
(***************************************************************************)
\* Lines 206-213: the event is parsed; a malformed one raises ValueError.
Begin(env, trigger) ==
    /\ inv[env].pc \in { "idle", "done" }
    /\ clock < MaxInvocations
    /\ clock' = clock + 1
    /\ s3' = IF trigger.kind = "put" THEN S3Put(s3, trigger.key, trigger.body) ELSE s3
    /\ inv' = [ inv EXCEPT ![env] =
                  IF trigger.kind = "malformed"
                  THEN [ IdleLocals EXCEPT !.pc = "done",
                                           !.result = Raised("Malformed event structure") ]
                  ELSE [ IdleLocals EXCEPT !.pc = "sts", !.raw_key = trigger.key ] ]
    /\ UNCHANGED << sales, sales_tgt, sales_summary, sns >>

\* Invocations are serialized: one at a time, in one environment.
lambda_handler(env) ==
    /\ env = "env1"
    /\ \A other \in Envs : ~InFlight(other)
    /\ \E trigger \in Triggers : Begin(env, trigger)

\* Lines 215-216: get_aws_account_id, outside every try.
get_aws_account_id(env) ==
    /\ inv[env].pc = "sts"
    /\ \E ok \in BOOLEAN :
         LET calls == Append(inv[env].calls, Call("sts.get_caller_identity", ok))
         IN  inv' = [ inv EXCEPT ![env] =
                        IF ok THEN [ @ EXCEPT !.pc = "secrets", !.calls = calls ]
                        ELSE [ @ EXCEPT !.pc = "done", !.calls = calls,
                                        !.result = Raised("sts error") ] ]
    /\ UNCHANGED << s3, sales, sales_tgt, sales_summary, sns, clock >>

\* Mutant of CredentialsFailed: the fetch is inside the main try, so its
\* failure enters the handler of line 259.
CredentialsFailed_Handled(env, calls) ==
    Except(env, calls, "Failed to retrieve database credentials")

\* Lines 222-224: the failure is logged and raised as RuntimeError; nothing
\* catches it.
CredentialsFailed(env, calls) ==
    [ inv[env] EXCEPT !.pc = "done", !.calls = calls,
                      !.result = Raised("Failed to retrieve database credentials") ]

\* Lines 218-224.
GetSecret(env) ==
    /\ inv[env].pc = "secrets"
    /\ \E ok \in BOOLEAN :
         LET calls == Append(inv[env].calls, Call("secrets.get_secret_value", ok))
         IN  inv' = [ inv EXCEPT ![env] =
                        IF ok THEN [ @ EXCEPT !.pc = "read", !.calls = calls ]
                        ELSE CredentialsFailed(env, calls) ]
    /\ UNCHANGED << s3, sales, sales_tgt, sales_summary, sns, clock >>

\* Line 228, read_data_from_s3 (lines 58-79): get_object, the branch on the
\* key's extension, the parse; whatever raises is re-raised as RuntimeError.
read_data_from_s3(env) ==
    /\ inv[env].pc = "read"
    /\ \E fault \in { "none", "get_object", "parse" } :
         LET key   == inv[env].raw_key
             got   == fault # "get_object" /\ key \in DOMAIN s3
             calls == Append(inv[env].calls, Call("s3.get_object", got))
         IN  inv' = [ inv EXCEPT ![env] =
                        IF got /\ key.ext \in { "csv", "json" } /\ fault = "none"
                        THEN [ @ EXCEPT !.pc = "validate", !.calls = calls,
                                        !.raw_df = ParseTable(s3[key]) ]
                        ELSE Except(env, calls, "Error reading file from S3") ]
    /\ UNCHANGED << s3, sales, sales_tgt, sales_summary, sns, clock >>

\* Mutant of AfterValidation: the defects are logged and the batch goes on.
AfterValidation_Ignored(validation_errors) == "parquet"

\* `if validation_errors:` (line 233): where the handler goes next.
AfterValidation(validation_errors) ==
    IF validation_errors # << >> THEN "quarantine_copy" ELSE "parquet"

\* Lines 232-233: validate_data, and the branch on its result.
Validate(env) ==
    /\ inv[env].pc = "validate"
    /\ LET v == validate_data(inv[env].raw_df)
       IN  inv' = [ inv EXCEPT ![env] =
                      [ @ EXCEPT !.pc = AfterValidation(v.errors),
                                 !.raw_df = v.df,
                                 !.validation_errors = v.errors ] ]
    /\ UNCHANGED << s3, sales, sales_tgt, sales_summary, sns, clock >>

\* return {"status": "failed", "reason": validation_errors} (line 236).
ValidationFailed(env, calls) ==
    [ inv[env] EXCEPT !.pc = "done", !.calls = calls,
                      !.result = Returned("failed", { "status", "reason" },
                                          inv[env].validation_errors, "") ]

\* Mutant of QuarantineFailed: the failure is re-raised, as the other helpers do.
QuarantineFailed_Raises(env, calls) == Except(env, calls, "Quarantine operation failed")

\* `except Exception` of move_to_quarantine (lines 138-139): the failure is
\* logged and the handler goes on to line 236.
QuarantineFailed(env, calls) == ValidationFailed(env, calls)

\* Mutant of CopyRaised: the copy's failure is caught on its own and the
\* delete of line 136 still runs.
CopyRaised_StillDeletes(env, calls) ==
    [ inv[env] EXCEPT !.pc = "quarantine_delete", !.calls = calls ]

\* copy_object raising leaves the try of lines 125-137 before line 136: the
\* delete is skipped.
CopyRaised(env, calls) == QuarantineFailed(env, calls)

\* Line 235, move_to_quarantine up to copy_object (lines 125-135).  When the
\* copy raises, lines 138-139 log it and line 236 returns.
move_to_quarantine_copy(env) ==
    /\ inv[env].pc = "quarantine_copy"
    /\ \E fault \in BOOLEAN :
         LET key   == inv[env].raw_key
             ok    == ~fault /\ key \in DOMAIN s3
             calls == Append(inv[env].calls, Call("s3.copy_object", ok))
         IN  IF ok
             THEN /\ s3' = S3Put(s3, quarantine_key(key, get_timestamp_folder), s3[key])
                  /\ inv' = [ inv EXCEPT ![env] =
                                [ @ EXCEPT !.pc = "quarantine_delete", !.calls = calls ] ]
             ELSE /\ s3' = s3
                  /\ inv' = [ inv EXCEPT ![env] = CopyRaised(env, calls) ]
    /\ UNCHANGED << sales, sales_tgt, sales_summary, sns, clock >>

\* Line 136 of move_to_quarantine, then line 236.
move_to_quarantine_delete(env) ==
    /\ inv[env].pc = "quarantine_delete"
    /\ \E ok \in BOOLEAN :
         LET calls == Append(inv[env].calls, Call("s3.delete_object", ok))
         IN  IF ok
             THEN /\ s3' = S3Delete(s3, inv[env].raw_key)
                  /\ inv' = [ inv EXCEPT ![env] = ValidationFailed(env, calls) ]
             ELSE /\ s3' = s3
                  /\ inv' = [ inv EXCEPT ![env] = QuarantineFailed(env, calls) ]
    /\ UNCHANGED << sales, sales_tgt, sales_summary, sns, clock >>

\* Line 240, write_parquet_to_s3 (lines 141-158): to_parquet, then put_object;
\* whatever raises is re-raised as RuntimeError.
write_parquet_to_s3(env) ==
    /\ inv[env].pc = "parquet"
    /\ \E fault \in { "none", "to_parquet", "put_object" } :
         LET calls == IF fault = "to_parquet" THEN inv[env].calls
                      ELSE Append(inv[env].calls, Call("s3.put_object", fault = "none"))
         IN  IF fault = "none"
             THEN /\ s3' = S3Put(s3, target_key(inv[env].raw_key, get_timestamp_folder),
                                 ToParquet(inv[env].raw_df))
                  /\ inv' = [ inv EXCEPT ![env] = [ @ EXCEPT !.pc = "sales", !.calls = calls ] ]
             ELSE /\ s3' = s3
                  /\ inv' = [ inv EXCEPT ![env] = Except(env, calls, "Parquet conversion failed") ]
    /\ UNCHANGED << sales, sales_tgt, sales_summary, sns, clock >>

\* What a to_sql(..., if_exists='replace') that raises leaves of the table:
\* the table as it was, or the table dropped (the drop is not rolled back).
ReplaceLeaves(table, absent) == { table, absent }

\* Mutant of AppendRows: if_exists='replace'.
AppendRows_Replace(table, rows) == [ exists |-> TRUE, rows |-> rows ]

\* to_sql(..., if_exists='append') that returns (line 172).
AppendRows(table, rows) == [ exists |-> TRUE, rows |-> table.rows \o rows ]

\* to_sql(..., if_exists='replace') that returns (lines 181, 190).
ReplaceRows(table, rows) == [ exists |-> TRUE, rows |-> rows ]

\* df[col].dt (lines 168-169) raises unless the column holds timestamps.
HasDtAccessor(df, col) == col \in df.columns /\ df.dtypes[col] = "datetime"

\* Line 244, update_rds_tables up to the insert into sales (lines 162-172):
\* the date columns are rendered as text in place, then the rows are appended.
update_rds_tables_sales(env) ==
    /\ inv[env].pc = "sales"
    /\ IF HasDtAccessor(inv[env].raw_df, "OrderDate") /\ HasDtAccessor(inv[env].raw_df, "ShipDate")
       THEN \E ok \in BOOLEAN :
              LET df    == StrftimeDates(inv[env].raw_df)
                  calls == Append(inv[env].calls, Call("sales.to_sql(append)", ok))
              IN  IF ok
                  THEN /\ sales' = AppendRows(sales, df.rows)
                       /\ inv' = [ inv EXCEPT ![env] =
                                     [ @ EXCEPT !.pc = "read_tgt", !.calls = calls, !.raw_df = df ] ]
                  ELSE /\ sales' = sales
                       /\ inv' = [ inv EXCEPT ![env] =
                                     [ Except(env, calls, "RDS update failed") EXCEPT !.raw_df = df ] ]
       ELSE /\ sales' = sales
            /\ inv' = [ inv EXCEPT ![env] = Except(env, inv[env].calls, "RDS update failed") ]
    /\ UNCHANGED << s3, sales_tgt, sales_summary, sns, clock >>

\* Lines 175-178: the snapshot is read; when the read raises (the table is
\* absent, or the read fails) an empty frame stands for it.
update_rds_tables_read_tgt(env) ==
    /\ inv[env].pc = "read_tgt"
    /\ \E fault \in BOOLEAN :
         LET ok == ~fault /\ sales_tgt.exists
         IN  inv' = [ inv EXCEPT ![env] =
                        [ @ EXCEPT !.pc = "replace_tgt",
                                   !.calls = Append(@, Call("sales_tgt.read_sql_table", ok)),
                                   !.existing_sales_tgt = IF ok THEN sales_tgt.rows ELSE << >> ] ]
    /\ UNCHANGED << s3, sales, sales_tgt, sales_summary, sns, clock >>

\* Lines 179-181: concat, drop_duplicates, and the snapshot replaced.
update_rds_tables_replace_tgt(env) ==
    /\ inv[env].pc = "replace_tgt"
    /\ \E ok \in BOOLEAN :
         LET merged_df == Reconcile(inv[env].existing_sales_tgt, inv[env].raw_df.rows)
             calls     == Append(inv[env].calls, Call("sales_tgt.to_sql(replace)", ok))
         IN  IF ok
             THEN /\ sales_tgt' = ReplaceRows(sales_tgt, merged_df)
                  /\ inv' = [ inv EXCEPT ![env] =
                                [ @ EXCEPT !.pc = "replace_summary", !.calls = calls ] ]
             ELSE /\ sales_tgt' \in ReplaceLeaves(sales_tgt, AbsentTable)
                  /\ inv' = [ inv EXCEPT ![env] = Except(env, calls, "RDS update failed") ]
    /\ UNCHANGED << s3, sales, sales_summary, sns, clock >>

\* Mutant of SummaryInput: the merged snapshot is aggregated, not the batch.
SummaryInput_Snapshot(env) == [ inv[env].raw_df EXCEPT !.rows = sales_tgt.rows ]

\* The frame update_rds_tables groups at line 184: df, the batch.
SummaryInput(env) == inv[env].raw_df

\* Lines 183-191: the summary of the batch computed and the table replaced.
update_rds_tables_summary(env) ==
    /\ inv[env].pc = "replace_summary"
    /\ \E ok \in BOOLEAN :
         LET summary_df == Aggregate(SummaryInput(env))
             calls      == Append(inv[env].calls, Call("sales_summary.to_sql(replace)", ok))
         IN  IF ok
             THEN /\ sales_summary' = ReplaceRows(sales_summary, summary_df)
                  /\ inv' = [ inv EXCEPT ![env] =
                                [ @ EXCEPT !.pc = "delete_raw", !.calls = calls ] ]
             ELSE /\ sales_summary' \in ReplaceLeaves(sales_summary, AbsentSummary)
                  /\ inv' = [ inv EXCEPT ![env] = Except(env, calls, "RDS update failed") ]
    /\ UNCHANGED << s3, sales, sales_tgt, sns, clock >>

\* Line 248, delete_raw_file (lines 196-202): a failure is logged, no more.
delete_raw_file(env) ==
    /\ inv[env].pc = "delete_raw"
    /\ \E ok \in BOOLEAN :
         /\ s3' = IF ok THEN S3Delete(s3, inv[env].raw_key) ELSE s3
         /\ inv' = [ inv EXCEPT ![env] =
                       [ @ EXCEPT !.pc = "publish",
                                  !.calls = Append(@, Call("s3.delete_object", ok)) ] ]
    /\ UNCHANGED << sales, sales_tgt, sales_summary, sns, clock >>

Message(subject, key, error) == [ Subject |-> subject, key |-> key, error |-> error ]

\* Lines 251-258: the success notification, and the success result.
PublishSuccess(env) ==
    /\ inv[env].pc = "publish"
    /\ \E ok \in BOOLEAN :
         LET calls == Append(inv[env].calls, Call("sns.publish(success)", ok))
         IN  IF ok
             THEN /\ sns' = Append(sns, Message("Data Processing Successful", inv[env].raw_key, ""))
                  /\ inv' = [ inv EXCEPT ![env] =
                                [ @ EXCEPT !.pc = "done", !.calls = calls,
                                           !.result = Returned("success", { "status" }, << >>, "") ] ]
             ELSE /\ sns' = sns
                  /\ inv' = [ inv EXCEPT ![env] = Except(env, calls, "sns error") ]
    /\ UNCHANGED << s3, sales, sales_tgt, sales_summary, clock >>

\* Lines 259-266: the handler of the main pipeline's exceptions; a publish
\* that raises here is caught by nothing.
PublishFailure(env) ==
    /\ inv[env].pc = "except"
    /\ \E ok \in BOOLEAN :
         LET calls == Append(inv[env].calls, Call("sns.publish(failure)", ok))
         IN  IF ok
             THEN /\ sns' = Append(sns, Message("Data Processing Failed", inv[env].raw_key, inv[env].e))
                  /\ inv' = [ inv EXCEPT ![env] =
                                [ @ EXCEPT !.pc = "done", !.calls = calls,
                                           !.result = Returned("failed", { "status", "error" },
                                                               << >>, inv[env].e) ] ]
             ELSE /\ sns' = sns
                  /\ inv' = [ inv EXCEPT ![env] =
                                [ @ EXCEPT !.pc = "done", !.calls = calls,
                                           !.result = Raised("sns error") ] ]
    /\ UNCHANGED << s3, sales, sales_tgt, sales_summary, clock >>

Next ==
    \E env \in Envs :
        \/ lambda_handler(env)
        \/ get_aws_account_id(env)
        \/ GetSecret(env)
        \/ read_data_from_s3(env)
        \/ Validate(env)
        \/ move_to_quarantine_copy(env)
        \/ move_to_quarantine_delete(env)
        \/ write_parquet_to_s3(env)
        \/ update_rds_tables_sales(env)
        \/ update_rds_tables_read_tgt(env)
        \/ update_rds_tables_replace_tgt(env)
        \/ update_rds_tables_summary(env)
        \/ delete_raw_file(env)
        \/ PublishSuccess(env)
        \/ PublishFailure(env)

Spec == Init /\ [][Next]_vars

(***************************************************************************)
(* The handler on the validator's input family: serialized invocations,    *)
(* each for a raw file of ValidatorTables just uploaded to the csv key.    *)
(***************************************************************************)
lambda_handler_validator(env) ==
    /\ env = "env1"
    /\ \A other \in Envs : ~InFlight(other)
    /\ clock < MaxValidated
    /\ \E table \in ValidatorTables :
         Begin(env, [ kind |-> "put", key |-> CsvKey, body |-> table ])

NextValidator ==
    \E env \in Envs :
        \/ lambda_handler_validator(env)
        \/ get_aws_account_id(env)
        \/ GetSecret(env)
        \/ read_data_from_s3(env)
        \/ Validate(env)
        \/ move_to_quarantine_copy(env)
        \/ move_to_quarantine_delete(env)
        \/ write_parquet_to_s3(env)
        \/ update_rds_tables_sales(env)
        \/ update_rds_tables_read_tgt(env)
        \/ update_rds_tables_replace_tgt(env)
        \/ update_rds_tables_summary(env)
        \/ delete_raw_file(env)
        \/ PublishSuccess(env)
        \/ PublishFailure(env)

SpecValidator == Init /\ [][NextValidator]_vars

(***************************************************************************)
(* Concurrent invocations: nothing in the handler or in update_rds_tables  *)
(* keeps two environments from running at once, each for its own raw file. *)
(***************************************************************************)
OrdersKey == Key("incoming", 0, "orders", "csv")

ConcurrentUploads ==
    { [ key |-> CsvKey,    body |-> Table(AllColumns, << RowA("u1") >>) ],
      [ key |-> OrdersKey, body |-> Table(AllColumns, << RowB("u2") >>) ],
      [ key |-> OrdersKey, body |-> Table(AllColumns, << RowB("u2"), RowA("u2") >>) ] }

lambda_handler_concurrent(env) ==
    \E u \in ConcurrentUploads :
        /\ u.key \notin { inv[other].raw_key : other \in { x \in Envs : InFlight(x) } }
        /\ Begin(env, [ kind |-> "put", key |-> u.key, body |-> u.body ])

NextConcurrent ==
    \E env \in Envs :
        \/ lambda_handler_concurrent(env)
        \/ get_aws_account_id(env)
        \/ GetSecret(env)
        \/ read_data_from_s3(env)
        \/ Validate(env)
        \/ move_to_quarantine_copy(env)
        \/ move_to_quarantine_delete(env)
        \/ write_parquet_to_s3(env)
        \/ update_rds_tables_sales(env)
        \/ update_rds_tables_read_tgt(env)
        \/ update_rds_tables_replace_tgt(env)
        \/ update_rds_tables_summary(env)
        \/ delete_raw_file(env)
        \/ PublishSuccess(env)
        \/ PublishFailure(env)

SpecConcurrent == Init /\ [][NextConcurrent]_vars

(***************************************************************************)
(* Properties.                                                             *)
(***************************************************************************)
\* The archival objects of the bucket, with their bodies.
ArchiveObjects(store) ==
    [ k \in { x \in DOMAIN store : x.prefix = "processed" } |-> store[k] ]

\* The quarantine objects of the bucket, with their bodies.
QuarantineObjects(store) ==
    [ k \in { x \in DOMAIN store : x.prefix = "quarantine" } |-> store[k] ]

\* C1: in an invocation whose batch has at least one validation defect, no
\* step writes an archival object or appends to or replaces a warehouse
\* table (raw log, snapshot, summary), and the handler returns a failed
\* result whose reason is the whole defect list.
C1_DefectiveBatchWritesNothing ==
    [][ \A env \in Envs :
          (inv'[env] # inv[env] /\ inv'[env].validation_errors # << >>) =>
             /\ ArchiveObjects(s3') = ArchiveObjects(s3)
             /\ sales' = sales
             /\ sales_tgt' = sales_tgt
             /\ sales_summary' = sales_summary
             /\ inv'[env].pc = "done" =>
                  inv'[env].result = Returned("failed", { "status", "reason" },
                                              inv'[env].validation_errors, "") ]_vars

\* A rejected batch with two defects has returned, after an earlier batch
\* was loaded into the warehouse.
C1_Witness ==
    \E env \in Envs :
        /\ inv[env].pc = "done"
        /\ inv[env].result.status = "failed"
        /\ Len(inv[env].result.reason) = 2
        /\ sales.rows # << >>
        /\ sales_tgt.rows # << >>

\* The invocation in `env` has ended by return or raise.
Ended(env) == inv[env].pc = "done" /\ inv[env].result.outcome # "none"

\* The invocation in `env` made the call `op`, and it returned / raised.
Did(env, op) == Call(op, TRUE) \in Range(inv[env].calls)
Failed(env, op) == Call(op, FALSE) \in Range(inv[env].calls)
Attempted(env, op) == Did(env, op) \/ Failed(env, op)

\* The invocation in `env` ended as a validation failure.
ValidationFailure(env) ==
    /\ Ended(env)
    /\ inv[env].result.outcome = "returned"
    /\ inv[env].result.keys = { "status", "reason" }

\* C2: every invocation that ends in a validation failure (its batch sent to
\* quarantine) has published a failure notification before it returns.
C2_ValidationFailureNotified ==
    \A env \in Envs :
        ValidationFailure(env) => Did(env, "sns.publish(failure)")

(***************************************************************************)
(* C3.                                                                     *)
(***************************************************************************)
\* The steps of an admitted batch, in the order the claim gives.
AdmittedSteps ==
    << "s3.put_object", "sales.to_sql(append)", "sales_tgt.to_sql(replace)",
       "sales_summary.to_sql(replace)", "s3.delete_object", "sns.publish(success)" >>

\* The steps among AdmittedSteps that a step that raises aborts.
AbortingSteps ==
    { "s3.put_object", "sales.to_sql(append)", "sales_tgt.to_sql(replace)",
      "sales_summary.to_sql(replace)" }

\* The calls of the invocation that are admitted-batch steps, in order.
StepsTaken(env) ==
    SelectSeq(inv[env].calls, LAMBDA c : c.op \in Range(AdmittedSteps))

Admitted(env) ==
    inv[env].validation_errors = << >> /\ inv[env].pc \notin { "idle", "sts", "secrets", "read", "validate" }
        /\ inv[env].raw_df # NoFrame

\* An archive, append or replace step of the invocation raised.
StepRaised(env) ==
    inv[env].e \in { "Parquet conversion failed", "RDS update failed" }

\* The part of C3 on the order: the steps taken are the first steps of the
\* fixed order, each once.
C3_FixedOrder ==
    \A env \in Envs :
        Admitted(env) =>
            LET taken == StepsTaken(env)
            IN  /\ Len(taken) <= Len(AdmittedSteps)
                /\ \A i \in 1..Len(taken) : taken[i].op = AdmittedSteps[i]

\* The part of C3 on a step that raises: no later step is attempted, and the
\* failure notification is attempted before the handler ends.
C3_NoStepAfterRaise ==
    \A env \in Envs :
        Admitted(env) =>
            LET taken == StepsTaken(env)
            IN  /\ \A i \in 1..Len(taken) :
                     (taken[i].op \in AbortingSteps /\ ~taken[i].ok) => i = Len(taken)
                /\ StepRaised(env) =>
                     /\ taken # << >> => taken[Len(taken)].op \in AbortingSteps
                     /\ \A i \in 1..Len(taken) : taken[i].ok => i < Len(taken)
                     /\ Ended(env) => Attempted(env, "sns.publish(failure)")

\* C3: the admitted-batch steps run in the order archive put, raw-log
\* append, snapshot replace, summary replace, raw-input delete, success
\* publish; when the archive, append or a replace step raises, no later step
\* is attempted, a failure notification is published, and a structured
\* failed result with the error text is returned.
C3_StepFailureHandled ==
    /\ C3_FixedOrder
    /\ C3_NoStepAfterRaise
    /\ \A env \in Envs :
         (Admitted(env) /\ StepRaised(env) /\ Ended(env)) =>
            /\ Did(env, "sns.publish(failure)")
            /\ inv[env].result = Returned("failed", { "status", "error" }, << >>, inv[env].e)

\* C4: for a batch with validation defects the handler returns the
\* validation failure with the defect list whether or not the quarantine
\* copy or the quarantine delete raised: the failure does not escape and
\* changes neither status nor reason.
C4_QuarantineFailureSwallowed ==
    \A env \in Envs :
        (Ended(env) /\ inv[env].validation_errors # << >>
           /\ (Failed(env, "s3.copy_object") \/ Failed(env, "s3.delete_object"))) =>
            inv[env].result = Returned("failed", { "status", "reason" },
                                       inv[env].validation_errors, "")

\* A rejected batch was copied to quarantine, the delete of the original
\* raised, and the handler has ended.
C4_Witness ==
    \E env \in Envs :
        /\ Ended(env)
        /\ inv[env].validation_errors # << >>
        /\ Did(env, "s3.copy_object")
        /\ Failed(env, "s3.delete_object")
        /\ inv[env].raw_key \in DOMAIN s3

\* C5: an invocation that ends by returning a structured failure with an
\* error text (a collaborator or transform error of the main pipeline) has
\* neither deleted its raw input nor moved it to quarantine.
C5_FailureLeavesRawInput ==
    \A env \in Envs :
        (Ended(env) /\ inv[env].result.outcome = "returned"
           /\ inv[env].result.keys = { "status", "error" }) =>
            /\ ~Did(env, "s3.delete_object")
            /\ ~Did(env, "s3.copy_object")

(***************************************************************************)
(* The snapshot and the raw log.                                           *)
(***************************************************************************)
Ids(rows) == { rows[i]["uuid"] : i \in 1..Len(rows) }

\* The rows of `rows` whose identifier is id.
RowsOf(rows, id) == { rows[i] : i \in { j \in 1..Len(rows) : rows[j]["uuid"] = id } }

UniqueIds(rows) ==
    \A i, j \in 1..Len(rows) : rows[i]["uuid"] = rows[j]["uuid"] => i = j

\* C6: after any sequence of serialized invocations from an absent snapshot
\* table, the persisted snapshot has at most one record per identifier.
C6_SnapshotIdsUnique == UniqueIds(sales_tgt.rows)

\* The snapshot holds two identifiers, one of which the raw log holds twice:
\* a merge has met a collision.
C6_Witness ==
    /\ Len(sales_tgt.rows) = 2
    /\ ~UniqueIds(sales.rows)

\* The reconciled snapshot `merged` of the existing snapshot S and batch B.
ReconcileContract(S, B, merged) ==
    /\ Ids(merged) = Ids(S) \cup Ids(B)
    /\ \A id \in Ids(B) : RowsOf(merged, id) = RowsOf(B, id)
    /\ \A id \in Ids(S) \ Ids(B) : RowsOf(merged, id) = RowsOf(S, id)
    /\ S = << >> => merged = B

\* C7: for the existing snapshot S the merge has read and the admitted batch
\* B, the snapshot written has exactly the identifiers of S and B, holds B's
\* record for every identifier of B (incoming wins), holds S's record
\* unchanged for every identifier of S not in B, and equals B when S is empty.
C7_ReconcileContract ==
    \A env \in Envs :
        inv[env].pc = "replace_summary" =>
            /\ UniqueIds(inv[env].existing_sales_tgt)
            /\ ReconcileContract(inv[env].existing_sales_tgt, inv[env].raw_df.rows,
                                 sales_tgt.rows)

\* A merge has just replaced the snapshot where the existing snapshot held
\* another record for an identifier of the batch, and an identifier that is
\* not in the batch.
C7_Witness ==
    \E env \in Envs :
        /\ inv[env].pc = "replace_summary"
        /\ \E id \in Ids(inv[env].existing_sales_tgt) \cap Ids(inv[env].raw_df.rows) :
             RowsOf(inv[env].existing_sales_tgt, id) # RowsOf(inv[env].raw_df.rows, id)
        /\ Ids(inv[env].existing_sales_tgt) \ Ids(inv[env].raw_df.rows) # {}

\* The snapshot replace of the invocation in `env` completes in this step.
MergeCompletes(env) ==
    inv[env].pc = "replace_tgt" /\ inv'[env].pc = "replace_summary"

\* The batch whose snapshot replace completes in this step, if any.
MergedBatch ==
    IF \E env \in Envs : MergeCompletes(env)
    THEN inv[CHOOSE env \in Envs : MergeCompletes(env)].raw_df.rows
    ELSE << >>

\* C8: for every identifier that occurred in a batch whose snapshot replace
\* completed, the persisted snapshot holds the record of the most recent
\* such batch; no later invocation loses an identifier from the snapshot.
\* Step by step: a completed replace leaves the batch's records in the
\* snapshot, and every other identifier of the snapshot keeps its record.
C8_SnapshotKeepsLatest ==
    [][ /\ \A id \in Ids(MergedBatch) :
             RowsOf(sales_tgt'.rows, id) = RowsOf(MergedBatch, id)
        /\ \A id \in Ids(sales_tgt.rows) \ Ids(MergedBatch) :
             RowsOf(sales_tgt'.rows, id) = RowsOf(sales_tgt.rows, id) ]_vars

\* The batch B is merged in the snapshot `rows`.
AlreadyMerged(rows, B) == Reconcile(rows, B) = rows

\* The part of C9 on the merge itself: reconcile(reconcile(S, B), B) equals
\* reconcile(S, B) for the S and B of every merge.
C9_ReconcileIdempotent ==
    \A env \in Envs :
        inv[env].pc = "replace_summary" =>
            LET S == inv[env].existing_sales_tgt
                B == inv[env].raw_df.rows
            IN  /\ sales_tgt.rows = Reconcile(S, B)
                /\ Reconcile(Reconcile(S, B), B) = Reconcile(S, B)

\* C9: re-merging a batch is idempotent, so an invocation on a batch whose
\* merge has completed leaves the persisted snapshot unchanged.
C9_RemergeLeavesSnapshot ==
    [][ \A env \in Envs :
          ( /\ inv[env].pc = "replace_tgt"
            /\ inv'[env] # inv[env]
            /\ AlreadyMerged(sales_tgt.rows, inv[env].raw_df.rows) ) =>
             sales_tgt' = sales_tgt ]_vars

\* The row of the raw log for a row of the raw file: the cells as they are,
\* the two dates rendered as year-month-day.
LoggedRow(row) ==
    [ row EXCEPT !["OrderDate"] = Strftime(ParseMdy(@)),
                 !["ShipDate"] = Strftime(ParseMdy(@)) ]

\* The raw-log append of the invocation in `env` completes in this step.
AppendCompletes(env) ==
    inv[env].pc = "sales" /\ inv'[env].pc = "read_tgt"

\* C10: the raw log is only appended to: a step in which the raw-log append
\* completes leaves the raw log as it was followed by the records of the
\* admitted batch in batch order, and every other step (a later step of the
\* invocation that fails included) leaves the raw log unchanged.
C10_RawLogAppendOnly ==
    [][ IF \E env \in Envs : AppendCompletes(env)
        THEN LET env   == CHOOSE x \in Envs : AppendCompletes(x)
                 batch == s3[inv[env].raw_key].rows
             IN  /\ sales'.exists
                 /\ sales'.rows = sales.rows \o [ i \in 1..Len(batch) |-> LoggedRow(batch[i]) ]
        ELSE sales' = sales ]_vars

\* The raw log holds two batches, an identifier twice, and the invocation of
\* the second batch failed at a later warehouse step.
C10_Witness ==
    \E env \in Envs :
        /\ Len(sales.rows) >= 3
        /\ ~UniqueIds(sales.rows)
        /\ inv[env].e = "RDS update failed"
        /\ Did(env, "sales.to_sql(append)")

(***************************************************************************)
(* The summary.                                                            *)
(***************************************************************************)
\* The country values of the rows `rows` (an empty cell is no value).
Countries(rows) == { rows[i]["Country"] : i \in 1..Len(rows) } \ { NaN }

\* The units-sold numbers of the rows of `rows` whose country is k.
UnitsOf(rows, k) ==
    { NumValue(rows[i]["UnitsSold"]) :
        i \in { j \in 1..Len(rows) : rows[j]["Country"] = k /\ rows[j]["UnitsSold"] # NaN } }

\* C11: after an invocation whose summary replace completed, the persisted
\* summary has exactly one row per distinct country value of that
\* invocation's batch, no row of any other country (nothing carried over
\* from earlier batches or from the snapshot), and each row's max_units_sold
\* is the maximum units-sold over the batch rows of that country.
C11_SummaryOfBatch ==
    \A env \in Envs :
        Did(env, "sales_summary.to_sql(replace)") =>
            LET batch == inv[env].raw_df.rows
            IN  /\ sales_summary.exists
                /\ { r.Country : r \in sales_summary.rows } = Countries(batch)
                /\ Cardinality(sales_summary.rows) = Cardinality(Countries(batch))
                /\ \A r \in sales_summary.rows :
                     LET units == UnitsOf(batch, r.Country)
                     IN  /\ units # {}
                         /\ r.max_units_sold[1] \in units
                         /\ \A u \in units : u <= r.max_units_sold[1]

\* The summary of a batch with two rows of one country and different
\* units-sold was written after an earlier batch of another country was
\* loaded (the raw log holds its record).
C11_Witness ==
    \E env \in Envs :
        /\ Did(env, "sales_summary.to_sql(replace)")
        /\ \E k \in Countries(inv[env].raw_df.rows) :
             Cardinality(UnitsOf(inv[env].raw_df.rows, k)) = 2
        /\ Countries(sales.rows) \ Countries(inv[env].raw_df.rows) # {}

(***************************************************************************)
(* The validator.                                                          *)
(***************************************************************************)
\* validate_data has just returned in `env`; the raw file it was given is
\* still under its key.
JustValidated(env) ==
    /\ inv[env].pc \in { "quarantine_copy", "parquet" }
    /\ inv[env].raw_key \in DOMAIN s3

\* The raw file of the invocation in `env`.
Batch(env) == s3[inv[env].raw_key]

\* The defects of a kind in a defect list.
DefectsOf(errors, kind) == SelectSeq(errors, LAMBDA d : d.kind = kind)

\* The defects of a kind that name the column col.
DefectsNaming(errors, kind, col) ==
    SelectSeq(errors, LAMBDA d : d.kind = kind /\ col \in Range(d.cols))

\* C12: every batch validate_data admits (empty defect list) has a value, no
\* empty cell, in every required field of every record.
C12_AdmittedHasNoNull ==
    \A env \in Envs :
        (JustValidated(env) /\ inv[env].validation_errors = << >>) =>
            \A i \in 1..Len(Batch(env).rows) :
                \A c \in Range(required_columns) :
                    c \in Batch(env).columns /\ Batch(env).rows[i][c] # NaN

\* C13: validate_data reports a missing-columns defect if and only if a
\* required column is absent; there is one such defect, it names exactly the
\* absent required columns, and no numeric-typing or date-parsing defect
\* names an absent column.
C13_MissingColumnsDefect ==
    \A env \in Envs :
        JustValidated(env) =>
            LET errors  == inv[env].validation_errors
                absent  == Range(required_columns) \ Batch(env).columns
                missing == DefectsOf(errors, "Missing columns")
            IN  /\ Len(missing) = IF absent = {} THEN 0 ELSE 1
                /\ \A i \in 1..Len(missing) :
                     /\ Range(missing[i].cols) = absent
                     /\ Len(missing[i].cols) = Cardinality(absent)
                /\ \A i \in 1..Len(errors) :
                     errors[i].kind # "Missing columns" =>
                        Range(errors[i].cols) \cap absent = {}

\* A batch that lacks a numeric column, a date column and one more column
\* and has a non-numeric value in a numeric column it has was validated.
C13_Witness ==
    \E env \in Envs :
        /\ JustValidated(env)
        /\ { "UnitsSold", "ShipDate" } \subseteq Range(required_columns) \ Batch(env).columns
        /\ Cardinality(Range(required_columns) \ Batch(env).columns) = 3
        /\ DefectsNaming(inv[env].validation_errors, "Non-numeric values in", "TotalCost") # << >>

\* The column col of the raw file has a value that is not a number.
HasNonNumeric(table, col) ==
    \E i \in 1..Len(table.rows) : table.rows[i][col] \notin NumTokens \cup { NaN }

\* validate_data's defects on the numeric column col are as C14 says.
NumericDefectAsClaimed(env, col) ==
    Len(DefectsNaming(inv[env].validation_errors, "Non-numeric values in", col))
        = IF HasNonNumeric(Batch(env), col) THEN 1 ELSE 0

\* The part of C14 that holds: the batches with at least one row.
C14_RowsPresent ==
    \A env \in Envs :
        (JustValidated(env) /\ Batch(env).rows # << >>) =>
            \A col \in Range(numeric_cols) \cap Batch(env).columns :
                NumericDefectAsClaimed(env, col)

\* C14: for every batch and every numeric column it has, validate_data
\* reports exactly one defect naming the column if a value of the column is
\* non-numeric, however many rows have one, and no defect naming it
\* otherwise, whatever the other checks reported.
C14_NumericDefectPerColumn ==
    \A env \in Envs :
        JustValidated(env) =>
            \A col \in Range(numeric_cols) \cap Batch(env).columns :
                NumericDefectAsClaimed(env, col)

\* C15: for every batch that has the uuid column, validate_data reports
\* exactly one uniqueness defect if an identifier value occurs more than
\* once in the batch and no uniqueness defect if the values are distinct.
C15_UniquenessDefect ==
    \A env \in Envs :
        (JustValidated(env) /\ "uuid" \in Batch(env).columns) =>
            LET ids == { Batch(env).rows[i]["uuid"] : i \in 1..Len(Batch(env).rows) }
            IN  Len(DefectsOf(inv[env].validation_errors, "Duplicate UUIDs found"))
                    = IF Cardinality(ids) < Len(Batch(env).rows) THEN 1 ELSE 0

\* A batch of three records whose first and last share an identifier the
\* middle one does not have was validated, another defect reported too.
C15_Witness ==
    \E env \in Envs :
        /\ JustValidated(env)
        /\ "uuid" \in Batch(env).columns
        /\ Len(Batch(env).rows) = 3
        /\ Batch(env).rows[1]["uuid"] = Batch(env).rows[3]["uuid"]
        /\ Batch(env).rows[1]["uuid"] # Batch(env).rows[2]["uuid"]
        /\ Len(inv[env].validation_errors) >= 2

(***************************************************************************)
(* Notifications and faults.                                               *)
(***************************************************************************)
\* The publish calls of the invocation in `env`, in order.
Publishes(env) ==
    SelectSeq(inv[env].calls,
              LAMBDA c : c.op \in { "sns.publish(success)", "sns.publish(failure)" })

\* C16: in one invocation a publish is attempted at most once; a success
\* notification and a failure notification are never both attempted.
C16_PublishAttemptedOnce ==
    \A env \in Envs : Len(Publishes(env)) <= 1

\* The main pipeline phase (line 226) of the invocation in `env` has begun.
MainPhaseBegun(env) == Did(env, "secrets.get_secret_value")

\* C17: once the main pipeline phase has begun, every fault is turned into a
\* returned structured result: the invocation never ends by an exception
\* leaving the handler.
C17_NoExceptionEscapes ==
    \A env \in Envs :
        (MainPhaseBegun(env) /\ Ended(env)) => inv[env].result.outcome = "returned"

\* C18: an invocation whose event is malformed or whose credential fetch
\* fails ends by raising, having made no object-store, warehouse or
\* notifier call.
C18_FatalBeforeProcessing ==
    \A env \in Envs :
        ( \/ inv[env].result = Raised("Malformed event structure")
          \/ Failed(env, "secrets.get_secret_value") ) =>
            /\ Ended(env)
            /\ inv[env].result.outcome = "raised"
            /\ \A i \in 1..Len(inv[env].calls) :
                 inv[env].calls[i].op \in { "sts.get_caller_identity", "secrets.get_secret_value" }

\* The credential fetch of the second invocation failed: its raw file is
\* where it was uploaded and the warehouse is as the first invocation left it.
C18_Witness ==
    \E env \in Envs :
        /\ Failed(env, "secrets.get_secret_value")
        /\ Ended(env)
        /\ inv[env].raw_key \in DOMAIN s3
        /\ clock = 2
        /\ sales_tgt.rows # << >>

(***************************************************************************)
(* Lost updates of the snapshot.                                           *)
(***************************************************************************)
\* Every invocation so far has returned success.
AllSucceeded ==
    /\ \A env \in Envs : ~InFlight(env)
    /\ Len(SelectSeq(sns, LAMBDA m : m.Subject = "Data Processing Successful")) = clock

\* Two invocations have returned success and the snapshot lacks an
\* identifier one of their batches contributed.
LostUpdate ==
    /\ clock = 2
    /\ AllSucceeded
    /\ Ids(sales.rows) \ Ids(sales_tgt.rows) # {}

\* C19, the part on serialized invocations: no state is reachable in which
\* both invocations have returned success and the snapshot lacks an
\* identifier that one of the two batches contributed.
C19_SerializedNoLostUpdate == ~LostUpdate

\* The part of C19 on concurrent invocations, a state SpecConcurrent
\* reaches: both environments have returned success, each had read the
\* snapshot before the other replaced it, and the snapshot lacks the
\* identifier of one of the two batches.
LostUpdateByInterleaving ==
    /\ LostUpdate
    /\ \A env \in Envs :
         /\ inv[env].result.status = "success"
         /\ inv[env].existing_sales_tgt = << >>
    /\ inv["env1"].raw_key # inv["env2"].raw_key

(***************************************************************************)
(* Removal of the raw input.                                               *)
(***************************************************************************)
\* The rows of the raw log for the rows of a raw file.
LoggedRows(rows) == [ i \in 1..Len(rows) |-> LoggedRow(rows[i]) ]

\* The invocation in `env` removes its raw input in this step.
RemovesRawInput(env) ==
    /\ inv'[env] # inv[env]
    /\ inv[env].raw_key \in DOMAIN s3
    /\ inv[env].raw_key \notin DOMAIN s3'

\* The quarantine copy of the raw input of `env` is in the bucket.
QuarantineCopyDone(env) ==
    LET copy == quarantine_key(inv[env].raw_key, get_timestamp_folder)
    IN  /\ Did(env, "s3.copy_object")
        /\ copy \in DOMAIN s3
        /\ s3[copy] = Batch(env)

\* The batch of `env` is archived, in the raw log and in the snapshot, and
\* the summary is replaced.
BatchLoaded(env) ==
    LET logged == LoggedRows(Batch(env).rows)
    IN  /\ Did(env, "s3.put_object")
        /\ target_key(inv[env].raw_key, get_timestamp_folder) \in DOMAIN s3
        /\ Did(env, "sales.to_sql(append)")
        /\ Len(sales.rows) >= Len(logged)
        /\ SubSeq(sales.rows, Len(sales.rows) - Len(logged) + 1, Len(sales.rows)) = logged
        /\ Did(env, "sales_tgt.to_sql(replace)")
        /\ \A id \in Ids(logged) : RowsOf(sales_tgt.rows, id) # {}
        /\ Did(env, "sales_summary.to_sql(replace)")
        /\ sales_summary.exists

\* C20: an invocation removes the raw input from where it was uploaded only
\* when the quarantine copy of it is done (rejected batch), or when the
\* batch is archived, appended to the raw log, merged into the snapshot and
\* summarised (admitted batch).
C20_RawInputRemovedAfterSafe ==
    [][ \A env \in Envs :
          RemovesRawInput(env) =>
             \/ inv[env].validation_errors # << >> /\ QuarantineCopyDone(env)
             \/ inv[env].validation_errors = << >> /\ BatchLoaded(env) ]_vars

\* Both removals have happened: the first invocation loaded its batch and
\* deleted the raw file, the second one moved its batch to quarantine.
C20_Witness ==
    \E env \in Envs :
        /\ Did(env, "s3.copy_object")
        /\ Did(env, "s3.delete_object")
        /\ inv[env].raw_key \notin DOMAIN s3
        /\ ArchiveObjects(s3) # << >>
        /\ sales_summary.exists
        /\ Len(sns) = 1

====
